---- MODULE Spec2Model ----
(***************************************************************************)
(* Model of RapturePixelEngine.hpp: the caller thread (Construct, Start,   *)
(* assignments to the callbacks struct), the engine thread (TheThread) and *)
(* the X11 platform layer (CreateWindow .. PollEvents).                    *)
(*                                                                         *)
(* `trace` is a history variable: the sequence of platform calls, of the   *)
(* entry into the condition-variable wait and of callback invocations made *)
(* by the engine thread, in program order.                                 *)
(***************************************************************************)
EXTENDS Integers, Sequences, FiniteSets, TLC

VARIABLES
    x, y, width, height, title,   \* RapturePixelEngine configuration fields
    deltaTime,                    \* RapturePixelEngine::deltaTime (clock ticks)
    callbacks,                    \* RapturePixelEngine::callbacks
    isRunning,                    \* std::atomic_bool isRunning
    mtx,                          \* owner of RapturePixelEngine::mtx
    theThread,                    \* std::thread theThread: "empty" or "joinable"
    d,                            \* Platform::d (Display*)
    w,                            \* Platform::w and the server-side window
    xqueue,                       \* events of w in Xlib's event queue
    xsent,                        \* number of X events the server has sent
    now,                          \* steady_clock reading
    lastFrameTime,                \* local of TheThread
    currentFrameTime,             \* local of TheThread
    frame,                        \* iterations of for(;;) begun so far
    bgpc,                         \* position of the engine thread in TheThread
    callerpc,                     \* position of the caller thread
    lastCall,                     \* the caller's most recent method call
    constructArgs,                \* arguments of the most recent Construct
    alive,                        \* the process has not exited or terminated
    stdout,                       \* diagnostics printed
    trace                         \* history of the engine thread's calls

vars == <<x, y, width, height, title, deltaTime, callbacks, isRunning, mtx,
          theThread, d, w, xqueue, xsent, now, lastFrameTime,
          currentFrameTime, frame, bgpc, callerpc, lastCall, constructArgs,
          alive, stdout, trace>>

configVars == <<x, y, width, height, title>>
platformVars == <<d, w, xqueue, xsent>>
timeVars == <<now, lastFrameTime, currentFrameTime, deltaTime, frame>>
callerVars == <<callerpc, lastCall, constructArgs>>

----------------------------------------------------------------------------
\* Bounds of the model.

\* iterations of the for(;;) loop that are explored
MaxFrames == 3
\* X events the server sends for the window in one run
MaxXEvents == 2
\* largest steady_clock reading
MaxTime == 2

----------------------------------------------------------------------------
\* Data.

NullTitle == "nullptr"

\* Arguments the caller passes to Construct: the defaults and one other.
Configs ==
    { [x |-> 16, y |-> 16, width |-> 256, height |-> 256,
       title |-> "RapturePixelEngine Window"],
      [x |-> 0, y |-> 0, width |-> 640, height |-> 480, title |-> "T"] }

\* Event::EventType, Event::KeyEventType
EventType == {"NONE", "KEY"}
KeyEventType == {"PRESS", "RELEASE"}

\* rpe::Event: the tag and the union's only member.
Event(type, keyType) == [type |-> type, keyEvent |-> keyType]

\* XEvent types selected by ExposureMask | KeyPressMask | KeyReleaseMask.
XEventTypes == {"KeyPress", "KeyRelease", "Expose"}

\* Callables a std::function field can hold: the default lambda or a
\* handler supplied by the user.
Handlers == {"noop", "user"}

\* Default member initializers of the callbacks struct; OnKey is
\* copy-initialized from OnEventCallback.
DefaultCallbacks ==
    LET OnEventCallback == "noop"
    IN  [OnEventCallback |-> OnEventCallback,
         OnBegin         |-> "noop",
         OnEnd           |-> "noop",
         OnKey           |-> OnEventCallback]

CallbackNames == {"OnEventCallback", "OnBegin", "OnEnd", "OnKey"}

NoWindow == [created |-> FALSE]

NoEvent == [type |-> "-", keyEvent |-> "-"]

\* One entry of the history: a platform call, the wait, or a callback.
Entry(op, h, ev, native) ==
    [op |-> op, h |-> h, ev |-> ev, native |-> native]

Call(op) == Entry(op, "-", NoEvent, "-")

----------------------------------------------------------------------------
\* State after static initialization: both singletons have static storage
\* duration, so members without an initializer are zero.

Init ==
    /\ x = 0 /\ y = 0 /\ width = 0 /\ height = 0 /\ title = NullTitle
    /\ deltaTime = 0
    /\ callbacks = DefaultCallbacks
    /\ isRunning = FALSE
    /\ mtx = "free"
    /\ theThread = "empty"
    /\ d = "null"
    /\ w = NoWindow
    /\ xqueue = <<>>
    /\ xsent = 0
    /\ now = 1
    /\ lastFrameTime = 0
    /\ currentFrameTime = 0
    /\ frame = 0
    /\ bgpc = "unspawned"
    /\ callerpc = "ready"
    /\ lastCall = [op |-> "none", join |-> FALSE, joinable |-> FALSE]
    /\ constructArgs = [x |-> 0, y |-> 0, width |-> 0, height |-> 0,
                        title |-> NullTitle]
    /\ alive = TRUE
    /\ stdout = <<>>
    /\ trace = <<>>

----------------------------------------------------------------------------
\* The caller thread.

Called(op, join) ==
    [op |-> op, join |-> join, joinable |-> theThread = "joinable"]

\* Variant of SetCallback: OnKey refers to OnEventCallback instead of holding
\* a copy of it, so an assignment to OnEventCallback shows in OnKey too.
SetCallback_OnKeyAliased(name, h) ==
    /\ alive /\ callerpc = "ready"
    /\ ~isRunning
    /\ callbacks' = IF name = "OnEventCallback"
                    THEN [callbacks EXCEPT !.OnEventCallback = h, !.OnKey = h]
                    ELSE [callbacks EXCEPT ![name] = h]
    /\ UNCHANGED <<configVars, platformVars, timeVars, isRunning, mtx,
                   theThread, bgpc, callerVars, alive, stdout, trace>>

\* callbacks.<name> = h.  The fields are plain std::function objects, so the
\* caller assigns them only while the engine thread cannot be invoking them,
\* that is before Start publishes isRunning.
SetCallback(name, h) ==
    /\ alive /\ callerpc = "ready"
    /\ ~isRunning
    /\ callbacks' = [callbacks EXCEPT ![name] = h]
    /\ UNCHANGED <<configVars, platformVars, timeVars, isRunning, mtx,
                   theThread, bgpc, callerVars, alive, stdout, trace>>

\* Variant of Construct: it also initializes the flag, isRunning = false.
Construct_ResetsFlag(cfg) ==
    /\ alive /\ callerpc = "ready"
    /\ x' = cfg.x /\ y' = cfg.y /\ width' = cfg.width /\ height' = cfg.height
    /\ title' = cfg.title
    /\ isRunning' = FALSE
    /\ IF theThread = "joinable"
       THEN /\ alive' = FALSE
            /\ UNCHANGED <<theThread, bgpc>>
       ELSE /\ theThread' = "joinable"
            /\ bgpc' = "CreateWindow"
            /\ UNCHANGED alive
    /\ lastCall' = Called("Construct", FALSE)
    /\ constructArgs' = cfg
    /\ UNCHANGED <<platformVars, timeVars, callbacks, mtx,
                   callerpc, stdout, trace>>

\* Construct(x, y, width, height, title): records the configuration, then
\* move-assigns a new std::thread to theThread.  Assigning to a joinable
\* std::thread calls std::terminate.
Construct(cfg) ==
    /\ alive /\ callerpc = "ready"
    /\ x' = cfg.x /\ y' = cfg.y /\ width' = cfg.width /\ height' = cfg.height
    /\ title' = cfg.title
    /\ IF theThread = "joinable"
       THEN /\ alive' = FALSE
            /\ UNCHANGED <<theThread, bgpc>>
       ELSE /\ theThread' = "joinable"
            /\ bgpc' = "CreateWindow"
            /\ UNCHANGED alive
    /\ lastCall' = Called("Construct", FALSE)
    /\ constructArgs' = cfg
    /\ UNCHANGED <<platformVars, timeVars, callbacks, isRunning, mtx,
                   callerpc, stdout, trace>>

\* Variant of Start: the std::thread is created here when none exists yet.
Start_Spawns(join) ==
    /\ alive /\ callerpc = "ready"
    /\ isRunning' = TRUE
    /\ lastCall' = Called("Start", join)
    /\ UNCHANGED constructArgs
    /\ theThread' = "joinable"
    /\ bgpc' = IF theThread = "empty" THEN "CreateWindow" ELSE bgpc
    /\ callerpc' = IF join THEN "joining" ELSE callerpc
    /\ UNCHANGED <<configVars, platformVars, timeVars, callbacks, mtx,
                   alive, stdout, trace>>

\* Variant of Start: the test of the argument is inverted, if (!join).
Start_JoinInverted(join) ==
    /\ alive /\ callerpc = "ready"
    /\ isRunning' = TRUE
    /\ lastCall' = Called("Start", join)
    /\ UNCHANGED constructArgs
    /\ IF ~join
       THEN IF theThread = "joinable"
            THEN callerpc' = "joining" /\ UNCHANGED alive
            ELSE \E caught \in BOOLEAN :
                    alive' = caught /\ UNCHANGED callerpc
       ELSE UNCHANGED <<callerpc, alive>>
    /\ UNCHANGED <<configVars, platformVars, timeVars, callbacks, mtx,
                   theThread, bgpc, stdout, trace>>

\* Start(join): stores true to isRunning; with join it then joins theThread.
\* The thread function never returns, so a join of a joinable thread blocks
\* for good.  join() of a thread that is not joinable throws
\* std::system_error, which the caller either catches or lets terminate the
\* process.
Start(join) ==
    /\ alive /\ callerpc = "ready"
    /\ isRunning' = TRUE
    /\ lastCall' = Called("Start", join)
    /\ UNCHANGED constructArgs
    /\ IF join
       THEN IF theThread = "joinable"
            THEN callerpc' = "joining" /\ UNCHANGED alive
            ELSE \E caught \in BOOLEAN :
                    alive' = caught /\ UNCHANGED callerpc
       ELSE UNCHANGED <<callerpc, alive>>
    /\ UNCHANGED <<configVars, platformVars, timeVars, callbacks, mtx,
                   theThread, bgpc, stdout, trace>>

----------------------------------------------------------------------------
\* The engine thread: TheThread and the Platform methods it calls.

\* Variant of BgCreateWindow: TheThread passes height and width in the
\* wrong order.
BgCreateWindow_SwapSize ==
    /\ alive /\ bgpc = "CreateWindow"
    /\ \E opened \in BOOLEAN :
         IF opened
         THEN /\ d' = "open"
              /\ w' = [created |-> TRUE, mapped |-> FALSE,
                       x |-> x, y |-> y, width |-> height, height |-> width,
                       title |-> title]
              /\ bgpc' = "CreateGraphics"
              /\ UNCHANGED <<alive, stdout>>
         ELSE /\ d' = "null"
              /\ stdout' = Append(stdout, "Can't connect X server.")
              /\ alive' = FALSE
              /\ UNCHANGED <<w, bgpc>>
    /\ trace' = Append(trace, Call("CreateWindow"))
    /\ UNCHANGED <<configVars, timeVars, callbacks, isRunning, mtx, theThread,
                   xqueue, xsent, callerVars>>

\* Variant of BgCreateWindow: the nullptr branch prints the diagnostic but
\* does not exit, and the rest of CreateWindow and of TheThread goes on.
BgCreateWindow_NoExit ==
    /\ alive /\ bgpc = "CreateWindow"
    /\ \E opened \in BOOLEAN :
         /\ d' = IF opened THEN "open" ELSE "null"
         /\ stdout' = IF opened THEN stdout
                      ELSE Append(stdout, "Can't connect X server.")
         /\ w' = [created |-> TRUE, mapped |-> FALSE,
                  x |-> x, y |-> y, width |-> width, height |-> height,
                  title |-> title]
         /\ bgpc' = "CreateGraphics"
         /\ UNCHANGED alive
    /\ trace' = Append(trace, Call("CreateWindow"))
    /\ UNCHANGED <<configVars, timeVars, callbacks, isRunning, mtx, theThread,
                   xqueue, xsent, callerVars>>

\* Platform::CreateWindow as called from TheThread with the instance's
\* configuration.  XOpenDisplay either yields a display or nullptr; on
\* nullptr the diagnostic is printed and std::exit(1) ends the process.
BgCreateWindow ==
    /\ alive /\ bgpc = "CreateWindow"
    /\ \E opened \in BOOLEAN :
         IF opened
         THEN /\ d' = "open"
              /\ w' = [created |-> TRUE, mapped |-> FALSE,
                       x |-> x, y |-> y, width |-> width, height |-> height,
                       title |-> title]
              /\ bgpc' = "CreateGraphics"
              /\ UNCHANGED <<alive, stdout>>
         ELSE /\ d' = "null"
              /\ stdout' = Append(stdout, "Can't connect X server.")
              /\ alive' = FALSE
              /\ UNCHANGED <<w, bgpc>>
    /\ trace' = Append(trace, Call("CreateWindow"))
    /\ UNCHANGED <<configVars, timeVars, callbacks, isRunning, mtx, theThread,
                   xqueue, xsent, callerVars>>

\* Variant of BgCreateGraphics: ShowWindow is not called before the wait.
BgCreateGraphics_SkipShow ==
    /\ alive /\ bgpc = "CreateGraphics"
    /\ bgpc' = "lock"
    /\ trace' = Append(trace, Call("CreateGraphics"))
    /\ UNCHANGED <<configVars, platformVars, timeVars, callbacks, isRunning,
                   mtx, theThread, callerVars, alive, stdout>>

\* Platform::CreateGraphics: empty body.
BgCreateGraphics ==
    /\ alive /\ bgpc = "CreateGraphics"
    /\ bgpc' = "ShowWindow"
    /\ trace' = Append(trace, Call("CreateGraphics"))
    /\ UNCHANGED <<configVars, platformVars, timeVars, callbacks, isRunning,
                   mtx, theThread, callerVars, alive, stdout>>

\* Platform::ShowWindow: XMapWindow, XFlush.
BgShowWindow ==
    /\ alive /\ bgpc = "ShowWindow"
    /\ w' = [w EXCEPT !.mapped = TRUE]
    /\ bgpc' = "lock"
    /\ trace' = Append(trace, Call("ShowWindow"))
    /\ UNCHANGED <<configVars, timeVars, callbacks, isRunning, mtx, theThread,
                   d, xqueue, xsent, callerVars, alive, stdout>>

\* std::unique_lock<std::mutex> lock(instance->mtx)
BgLock ==
    /\ alive /\ bgpc = "lock"
    /\ mtx = "free"
    /\ mtx' = "TheThread"
    /\ bgpc' = "wait"
    /\ UNCHANGED <<configVars, platformVars, timeVars, callbacks, isRunning,
                   theThread, callerVars, alive, stdout, trace>>

\* The predicate of the wait: isRunning.load().
WaitPredicate == isRunning

\* condition_variable::wait(lock, pred) is  while (!pred()) wait(lock);
\* this step evaluates the predicate with the mutex held and either leaves
\* the wait or releases the mutex and blocks.
BgWait ==
    /\ alive /\ bgpc = "wait"
    /\ IF WaitPredicate
       THEN bgpc' = "unlock" /\ UNCHANGED mtx
       ELSE bgpc' = "blocked" /\ mtx' = "free"
    /\ trace' = IF \E i \in 1..Len(trace) : trace[i].op = "wait"
                THEN trace
                ELSE Append(trace, Call("wait"))
    /\ UNCHANGED <<configVars, platformVars, timeVars, callbacks, isRunning,
                   theThread, callerVars, alive, stdout>>

\* Variant of BgSpuriousWakeup: the wait is  if (!pred()) wait(lock);  so a
\* wake-up leaves the wait without evaluating the predicate again.
BgSpuriousWakeup_NoRecheck ==
    /\ alive /\ bgpc = "blocked"
    /\ mtx = "free"
    /\ mtx' = "TheThread"
    /\ bgpc' = "unlock"
    /\ UNCHANGED <<configVars, platformVars, timeVars, callbacks, isRunning,
                   theThread, callerVars, alive, stdout, trace>>

\* A blocked wait(lock) returns only when notified or spuriously.  Nothing
\* notifies the condition variable while the engine thread is blocked (Start
\* does not, and the only notify_all is the engine thread's own), so the
\* only return is a spurious wake-up, which re-acquires the mutex and
\* re-evaluates the predicate.
BgSpuriousWakeup ==
    /\ alive /\ bgpc = "blocked"
    /\ mtx = "free"
    /\ mtx' = "TheThread"
    /\ bgpc' = "wait"
    /\ UNCHANGED <<configVars, platformVars, timeVars, callbacks, isRunning,
                   theThread, callerVars, alive, stdout, trace>>

\* lock.unlock()
BgUnlock ==
    /\ alive /\ bgpc = "unlock"
    /\ mtx' = "free"
    /\ bgpc' = "notify_all"
    /\ UNCHANGED <<configVars, platformVars, timeVars, callbacks, isRunning,
                   theThread, callerVars, alive, stdout, trace>>

\* instance->lock.notify_all(): no thread is waiting.
BgNotifyAll ==
    /\ alive /\ bgpc = "notify_all"
    /\ bgpc' = "OnBegin"
    /\ UNCHANGED <<configVars, platformVars, timeVars, callbacks, isRunning,
                   mtx, theThread, callerVars, alive, stdout, trace>>

\* instance->callbacks.OnBegin()
BgOnBegin ==
    /\ alive /\ bgpc = "OnBegin"
    /\ trace' = Append(trace, Entry("OnBegin", callbacks.OnBegin, NoEvent, "-"))
    /\ bgpc' = "frame"
    /\ UNCHANGED <<configVars, platformVars, timeVars, callbacks, isRunning,
                   mtx, theThread, callerVars, alive, stdout>>

\* Variant of BgFrameTime: lastFrameTime = currentFrameTime is missing.
BgFrameTime_NoLastUpdate ==
    /\ alive /\ bgpc = "frame"
    /\ frame < MaxFrames
    /\ \E t \in now..(IF now < MaxTime THEN now + 1 ELSE now) :
         /\ now' = t
         /\ currentFrameTime' = t
         /\ deltaTime' = t - lastFrameTime
         /\ UNCHANGED lastFrameTime
    /\ frame' = frame + 1
    /\ bgpc' = "PollEvents"
    /\ UNCHANGED <<configVars, platformVars, callbacks, isRunning, mtx,
                   theThread, callerVars, alive, stdout, trace>>

\* Variant of BgFrameTime: the operands of the subtraction are exchanged,
\* lastFrameTime - currentFrameTime.
BgFrameTime_Reversed ==
    /\ alive /\ bgpc = "frame"
    /\ frame < MaxFrames
    /\ \E t \in now..(IF now < MaxTime THEN now + 1 ELSE now) :
         /\ now' = t
         /\ currentFrameTime' = t
         /\ deltaTime' = lastFrameTime - t
         /\ lastFrameTime' = t
    /\ frame' = frame + 1
    /\ bgpc' = "PollEvents"
    /\ UNCHANGED <<configVars, platformVars, callbacks, isRunning, mtx,
                   theThread, callerVars, alive, stdout, trace>>

\* First half of one iteration of for(;;): sample steady_clock, which never
\* goes back, store the difference to the previous sample in deltaTime and
\* make the sample the previous one.
BgFrameTime ==
    /\ alive /\ bgpc = "frame"
    /\ frame < MaxFrames
    /\ \E t \in now..(IF now < MaxTime THEN now + 1 ELSE now) :
         /\ now' = t
         /\ currentFrameTime' = t
         /\ deltaTime' = t - lastFrameTime
         /\ lastFrameTime' = t
    /\ frame' = frame + 1
    /\ bgpc' = "PollEvents"
    /\ UNCHANGED <<configVars, platformVars, callbacks, isRunning, mtx,
                   theThread, callerVars, alive, stdout, trace>>

\* Variant of PollDispatch: OnEventCallback is invoked before the switch.
PollDispatch_EventFirst(newEvent, tmpType, keyGarbage) ==
    LET out == CASE tmpType = "KeyPress"   -> Event("KEY", "PRESS")
                 [] tmpType = "KeyRelease" -> Event("KEY", "RELEASE")
                 [] OTHER                  -> Event("NONE", keyGarbage)
        inSwitch == IF newEvent /\ tmpType \in {"KeyPress", "KeyRelease"}
                    THEN <<Entry("OnKey", callbacks.OnKey, out, "-")>>
                    ELSE <<>>
        beforeSwitch == IF newEvent
                        THEN <<Entry("OnEventCallback",
                                     callbacks.OnEventCallback, out, "-")>>
                        ELSE <<>>
    IN  beforeSwitch \o inSwitch

\* Variant of PollDispatch: the KeyPress case has no break and falls through
\* into the KeyRelease case.
PollDispatch_Fallthrough(newEvent, tmpType, keyGarbage) ==
    LET press == Event("KEY", "PRESS")
        release == Event("KEY", "RELEASE")
        out == CASE tmpType \in {"KeyPress", "KeyRelease"} -> release
                 [] OTHER -> Event("NONE", keyGarbage)
        inSwitch ==
            CASE newEvent /\ tmpType = "KeyPress" ->
                   <<Entry("OnKey", callbacks.OnKey, press, "-"),
                     Entry("OnKey", callbacks.OnKey, release, "-")>>
              [] newEvent /\ tmpType = "KeyRelease" ->
                   <<Entry("OnKey", callbacks.OnKey, release, "-")>>
              [] OTHER -> <<>>
        afterSwitch == IF newEvent
                       THEN <<Entry("OnEventCallback",
                                    callbacks.OnEventCallback, out, "-")>>
                       ELSE <<>>
    IN  inSwitch \o afterSwitch

\* The switch of Platform::PollEvents and the statement after it: the
\* callback invocations of one poll, in order.  newEvent is the result of
\* XCheckWindowEvent and tmpType is tmp.type.  Event(NONE) leaves the union
\* member unset, so its keyEvent is whatever the object held (keyGarbage).
PollDispatch(newEvent, tmpType, keyGarbage) ==
    LET out == CASE tmpType = "KeyPress"   -> Event("KEY", "PRESS")
                 [] tmpType = "KeyRelease" -> Event("KEY", "RELEASE")
                 [] OTHER                  -> Event("NONE", keyGarbage)
        inSwitch == IF newEvent /\ tmpType \in {"KeyPress", "KeyRelease"}
                    THEN <<Entry("OnKey", callbacks.OnKey, out, "-")>>
                    ELSE <<>>
        afterSwitch == IF newEvent
                       THEN <<Entry("OnEventCallback",
                                    callbacks.OnEventCallback, out, "-")>>
                       ELSE <<>>
    IN  inSwitch \o afterSwitch

\* Sequences over S of length at most n.
RECURSIVE SeqsUpTo(_, _)
SeqsUpTo(S, n) ==
    IF n = 0 THEN {<<>>}
    ELSE LET shorter == SeqsUpTo(S, n - 1)
         IN  shorter \cup {Append(q, e) : q \in shorter, e \in S}

\* XCheckWindowEvent(d, w, mask, &tmp): Xlib first reads the events the
\* server has sent since the last call (arrived) into its queue, then
\* removes the first queued event of the window that matches the mask and
\* returns true, or returns false and leaves tmp as it was.  The window
\* selects exactly the mask's event types, so every queued event matches.
\* The result: <<return value, type of the removed event, queue left>>.
XCheckWindowEvent(queue, arrived) ==
    LET q == queue \o arrived
    IN  IF q = <<>> THEN <<FALSE, "none", q>>
                    ELSE <<TRUE, Head(q), Tail(q)>>

\* Variant of BgPollEvents: the loop is left when XCheckWindowEvent finds no
\* event (if (!newEvent) break;), so that callbacks.OnEnd() is reached and
\* TheThread returns.
BgPollEvents_BreakOnNoEvent ==
    /\ alive /\ bgpc = "PollEvents"
    /\ \E arrived \in SeqsUpTo(XEventTypes, MaxXEvents - xsent),
          tmpGarbage \in XEventTypes, keyGarbage \in KeyEventType :
         LET r == XCheckWindowEvent(xqueue, arrived)
             newEvent == r[1]
             tmpType == IF newEvent THEN r[2] ELSE tmpGarbage
         IN  /\ xqueue' = r[3]
             /\ xsent' = xsent + Len(arrived)
             /\ trace' = Append(trace, Entry("PollEvents", "-", NoEvent, r[2]))
                            \o PollDispatch(newEvent, tmpType, keyGarbage)
                            \o (IF newEvent THEN <<>>
                                ELSE <<Entry("OnEnd", callbacks.OnEnd,
                                             NoEvent, "-")>>)
             /\ bgpc' = IF newEvent THEN "frame" ELSE "returned"
    /\ UNCHANGED <<configVars, timeVars, callbacks, isRunning, mtx, theThread,
                   d, w, callerVars, alive, stdout>>

\* Variant of BgPollEvents: the loop begins before the call of OnBegin, so
\* the next iteration calls OnBegin again.
BgPollEvents_LoopFromOnBegin ==
    /\ alive /\ bgpc = "PollEvents"
    /\ \E arrived \in SeqsUpTo(XEventTypes, MaxXEvents - xsent),
          tmpGarbage \in XEventTypes, keyGarbage \in KeyEventType :
         LET r == XCheckWindowEvent(xqueue, arrived)
             newEvent == r[1]
             tmpType == IF newEvent THEN r[2] ELSE tmpGarbage
         IN  /\ xqueue' = r[3]
             /\ xsent' = xsent + Len(arrived)
             /\ trace' = Append(trace, Entry("PollEvents", "-", NoEvent, r[2]))
                            \o PollDispatch(newEvent, tmpType, keyGarbage)
    /\ bgpc' = "OnBegin"
    /\ UNCHANGED <<configVars, timeVars, callbacks, isRunning, mtx, theThread,
                   d, w, callerVars, alive, stdout>>

\* Platform::PollEvents(engine), the second half of an iteration.  When
\* XCheckWindowEvent returns false, tmp was never written and tmp.type is
\* an indeterminate value (tmpGarbage).
BgPollEvents ==
    /\ alive /\ bgpc = "PollEvents"
    /\ \E arrived \in SeqsUpTo(XEventTypes, MaxXEvents - xsent),
          tmpGarbage \in XEventTypes, keyGarbage \in KeyEventType :
         LET r == XCheckWindowEvent(xqueue, arrived)
             newEvent == r[1]
             tmpType == IF newEvent THEN r[2] ELSE tmpGarbage
         IN  /\ xqueue' = r[3]
             /\ xsent' = xsent + Len(arrived)
             /\ trace' = Append(trace, Entry("PollEvents", "-", NoEvent, r[2]))
                            \o PollDispatch(newEvent, tmpType, keyGarbage)
    /\ bgpc' = "frame"
    /\ UNCHANGED <<configVars, timeVars, callbacks, isRunning, mtx, theThread,
                   d, w, callerVars, alive, stdout>>

----------------------------------------------------------------------------
\* The steps of the engine thread that the scheduler runs whenever they are
\* possible; a spurious wake-up is not among them.
BgStep ==
    \/ BgCreateWindow
    \/ BgCreateGraphics
    \/ BgShowWindow
    \/ BgLock
    \/ BgWait
    \/ BgUnlock
    \/ BgNotifyAll
    \/ BgOnBegin
    \/ BgFrameTime
    \/ BgPollEvents

CallerStep ==
    \/ \E name \in CallbackNames, h \in Handlers : SetCallback(name, h)
    \/ \E cfg \in Configs : Construct(cfg)
    \/ \E join \in BOOLEAN : Start(join)

Next ==
    \/ CallerStep
    \/ BgStep
    \/ BgSpuriousWakeup

Spec == Init /\ [][Next]_vars

\* The engine thread is a running std::thread: it is scheduled fairly.
LiveSpec == Spec /\ WF_vars(BgStep)

----------------------------------------------------------------------------
\* Reading the history.

Fired(op) == \E i \in 1..Len(trace) : trace[i].op = op

Count(op) == Cardinality({i \in 1..Len(trace) : trace[i].op = op})

Polls == {i \in 1..Len(trace) : trace[i].op = "PollEvents"}

\* The callback invocations of the poll at index i: the entries after it up
\* to the next poll.
Dispatched(i) ==
    LET later == {j \in Polls : j > i}
        stop == IF later = {} THEN Len(trace) + 1
                ELSE CHOOSE j \in later : \A k \in later : j <= k
    IN  SubSeq(trace, i + 1, stop - 1)

SetupOps == <<"CreateWindow", "CreateGraphics", "ShowWindow">>

\* Positions of TheThread after the wait has returned.
Released == {"unlock", "notify_all", "OnBegin", "frame", "PollEvents"}

----------------------------------------------------------------------------
\* C1: no callback fires and no poll is performed before Start has set the
\* running flag: whenever the engine thread is past the wait, or OnBegin,
\* OnEventCallback, OnKey or PollEvents is in the history, isRunning is true
\* (also when the wait was left after a spurious wake-up).
C1_NothingBeforeStart ==
    /\ bgpc \in Released => isRunning
    /\ (\E i \in 1..Len(trace) :
          trace[i].op \in {"OnBegin", "OnEventCallback", "OnKey", "PollEvents"})
       => isRunning

\* C1 witness: the engine thread has polled and dispatched a key event.
C1_Witness ==
    /\ isRunning
    /\ Fired("OnBegin") /\ Fired("PollEvents") /\ Fired("OnKey")
    /\ Fired("OnEventCallback")

\* C2 (as claimed): once Construct has spawned the thread and Start has set
\* the flag, the engine thread eventually fires OnBegin (unless the process
\* has ended), under fair scheduling of the engine thread.
C2_StartReleasesWait ==
    (theThread = "joinable" /\ isRunning) ~> (Fired("OnBegin") \/ ~alive)

\* C3: CreateWindow, CreateGraphics, ShowWindow are the first three calls of
\* the engine thread, in this order and once each, and all three are in the
\* history (the window created and mapped) whenever the engine thread has
\* reached the lock or the wait, whether or not isRunning is already true.
C3_SetupBeforeWait ==
    /\ \A i \in 1..Len(trace) :
         IF i <= Len(SetupOps) THEN trace[i].op = SetupOps[i]
         ELSE trace[i].op \notin {"CreateWindow", "CreateGraphics", "ShowWindow"}
    /\ (bgpc \in {"lock", "wait", "blocked"} \cup Released \/ Fired("wait"))
       => /\ Len(trace) >= Len(SetupOps)
          /\ w.created /\ w.mapped

\* C3 witness: the engine thread is blocked in the wait before Start.
C3_Witness ==
    /\ bgpc = "blocked" /\ ~isRunning
    /\ Fired("wait")

----------------------------------------------------------------------------
\* Dispatch of one poll.

KeyTypes == {"KeyPress", "KeyRelease"}

\* The Event a native key event is translated to.
KeyEventOf(native) ==
    IF native = "KeyPress" THEN Event("KEY", "PRESS")
                           ELSE Event("KEY", "RELEASE")

C5_UninterestingIsNoEvent ==
    \A i \in Polls : trace[i].native = "Expose" => Dispatched(i) = <<>>

\* The poll results of the history as Events: NONE for a poll without a
\* native event and for an Expose event.
PollResult(native) ==
    IF native \in KeyTypes THEN KeyEventOf(native) ELSE Event("NONE", "-")

RECURSIVE Filter(_, _)
\* The entries of sequence q whose op is in ops, in order.
Filter(q, ops) ==
    IF q = <<>> THEN <<>>
    ELSE IF Head(q).op \in ops THEN <<Head(q)>> \o Filter(Tail(q), ops)
         ELSE Filter(Tail(q), ops)

\* C6 (as claimed): the OnKey invocations carry, in poll order, the phases
\* of the polls whose result is a Key event, and the number of
\* OnEventCallback invocations is the number of polls whose result is not
\* NONE.
C6_SequenceOfPolls ==
    LET polls == Filter(trace, {"PollEvents"})
        keys == Filter(trace, {"OnKey"})
        results == [i \in 1..Len(polls) |-> PollResult(polls[i].native)]
        keyPolls == {i \in 1..Len(polls) : results[i].type = "KEY"}
        nonNone == {i \in 1..Len(polls) : results[i].type # "NONE"}
    IN  /\ Len(keys) = Cardinality(keyPolls)
        /\ \A k \in 1..Len(keys) :
             \E i \in keyPolls :
                /\ Cardinality({j \in keyPolls : j <= i}) = k
                /\ keys[k].ev = results[i]
        /\ Count("OnEventCallback") = Cardinality(nonNone)

----------------------------------------------------------------------------
\* Start and the caller thread.

\* C8: after Start(false) the caller is not suspended, wherever the engine
\* thread is; after Start(true) on a spawned thread the caller is suspended
\* in join; a caller is suspended only in such a join; and a caller
\* suspended in join stays suspended in every later step.
C8_BlockingStart ==
    /\ [](lastCall.op = "Start" /\ ~lastCall.join => callerpc = "ready")
    /\ [](lastCall.op = "Start" /\ lastCall.join /\ lastCall.joinable
            => callerpc = "joining")
    /\ [](callerpc = "joining" => theThread = "joinable" /\ isRunning)
    /\ [][callerpc = "joining" => callerpc' = "joining"]_vars

\* C8 witness: the caller is suspended in Start(true) while the engine thread
\* runs the loop.
C8_Witness ==
    /\ callerpc = "joining" /\ alive
    /\ lastCall = [op |-> "Start", join |-> TRUE, joinable |-> TRUE]
    /\ bgpc = "PollEvents" /\ frame = MaxFrames

\* C9 (as claimed): as long as Construct has not been called, a call of
\* Start is rejected and leaves the running flag false.
C9_StartBeforeConstructRejected ==
    theThread = "empty" => ~isRunning

\* C10: when XOpenDisplay fails in CreateWindow the process has ended at
\* that call: the diagnostic is printed, CreateWindow is the only call in
\* the history (no ShowWindow, no wait, no callback, no second attempt), no
\* window exists and the engine thread is still inside CreateWindow, also
\* when Start has been called.
C10_BackendUnavailableFatal ==
    (Fired("CreateWindow") /\ d = "null") =>
        /\ ~alive
        /\ trace = <<Call("CreateWindow")>>
        /\ ~w.created
        /\ bgpc = "CreateWindow"
        /\ stdout = <<"Can't connect X server.">>

\* C10 witness: the display could not be opened and Start has been called.
C10_Witness ==
    /\ Fired("CreateWindow") /\ d = "null"
    /\ isRunning

----------------------------------------------------------------------------
\* The running flag.

\* C11: isRunning starts false, becomes true only in a step of Start, and
\* no step of either thread (Construct, a repeated Start, an assignment to a
\* callback, the wait, a poll with its dispatch) sets it back to false.
C11_RunningMonotone ==
    /\ ~isRunning
    /\ [][isRunning => isRunning']_vars
    /\ [][~isRunning /\ isRunning' => lastCall'.op = "Start"]_vars

\* C11 witness: the flag is true after the loop has polled and dispatched,
\* and the caller has called Start and then Construct before.
C11_Witness ==
    /\ isRunning
    /\ lastCall.op = "Construct"
    /\ frame = MaxFrames /\ Fired("OnEventCallback")

----------------------------------------------------------------------------
\* The engine thread's creation.

\* The state after a Construct that found theThread joinable.
SecondConstruct == lastCall.op = "Construct" /\ lastCall.joinable

----------------------------------------------------------------------------
\* OnBegin and the loop.

\* C13: OnBegin is in the history at most once, and exactly once as soon as
\* the engine thread is in the loop; its invocation comes after the wait and
\* before every poll and every other callback, and it calls the handler
\* held by callbacks.OnBegin.
C13_OnBeginOnce ==
    /\ Count("OnBegin") <= 1
    /\ bgpc \in {"frame", "PollEvents"} => Count("OnBegin") = 1
    /\ (Fired("PollEvents") \/ Fired("OnKey") \/ Fired("OnEventCallback"))
       => Fired("OnBegin")
    /\ \A i \in 1..Len(trace) :
         trace[i].op = "OnBegin" =>
            /\ \E j \in 1..(i - 1) : trace[j].op = "wait"
            /\ \A j \in 1..(i - 1) :
                 trace[j].op \notin {"PollEvents", "OnKey", "OnEventCallback"}
            /\ trace[i].h = callbacks.OnBegin

\* C13 witness: every explored iteration of the loop has run after OnBegin.
C13_Witness ==
    /\ Count("OnBegin") = 1
    /\ Count("PollEvents") = MaxFrames
    /\ bgpc = "frame"

\* Positions of TheThread up to and inside for(;;); none lies after it.
BgPositions ==
    {"unspawned", "CreateWindow", "CreateGraphics", "ShowWindow", "lock",
     "wait", "blocked"} \cup Released

\* Positions of TheThread inside for(;;).
InLoop == {"frame", "PollEvents"}

\* C14: once the engine thread is in the loop every step leaves it in the
\* loop; it is never at a position after the loop, and OnEnd is never in
\* the history.
C14_LoopNeverExits ==
    /\ [][(bgpc \in InLoop) => (bgpc' \in InLoop)]_vars
    /\ [](bgpc \in BgPositions)
    /\ [](~Fired("OnEnd"))

\* C14 witness: all explored iterations are done, some without an event,
\* and the engine thread is still in the loop with the caller joined on it.
C14_Witness ==
    /\ bgpc = "frame" /\ frame = MaxFrames /\ alive
    /\ \E i \in Polls : trace[i].native = "none"
    /\ callerpc = "joining"

----------------------------------------------------------------------------
\* The configuration.

\* The configuration fields of the instance.
Recorded ==
    [x |-> x, y |-> y, width |-> width, height |-> height, title |-> title]

\* The arguments Platform::CreateWindow was called with.
WindowArgs ==
    [x |-> w.x, y |-> w.y, width |-> w.width, height |-> w.height,
     title |-> w.title]

\* C15: once the thread is spawned the configuration fields hold the
\* arguments Construct was called with; the window is created with exactly
\* these values and keeps them; and the fields change only in a step of
\* Construct (not in Start, an assignment to a callback, or any step of the
\* engine thread).  A second Construct ends the process and is left out of
\* the comparison of the window with the arguments.
C15_WindowAsConfigured ==
    /\ [](theThread = "joinable" => Recorded = constructArgs)
    /\ [](w.created /\ ~SecondConstruct => WindowArgs = constructArgs)
    /\ [][w.created => w'.created /\ WindowArgs' = WindowArgs]_vars
    /\ [][Recorded' # Recorded
            => lastCall'.op = "Construct" /\ Recorded' = constructArgs']_vars

\* C15 witness: the window exists with the 640x480 configuration while the
\* loop runs after Start.
C15_Witness ==
    /\ w.created /\ w.mapped /\ w.width = 640 /\ w.height = 480
    /\ w.title = "T"
    /\ isRunning /\ Fired("PollEvents") /\ alive

----------------------------------------------------------------------------
\* The callbacks.

\* C16: every field of callbacks holds a callable in every state, the
\* default no-op initially; a step changes at most one of the four fields;
\* and every OnKey (OnEventCallback) invocation in the history called the
\* handler held by callbacks.OnKey (callbacks.OnEventCallback), whatever
\* the other fields hold.
C16_HooksIndependent ==
    /\ callbacks = [n \in CallbackNames |-> "noop"]
    /\ [](DOMAIN callbacks = CallbackNames)
    /\ [](\A n \in CallbackNames : callbacks[n] \in Handlers)
    /\ [][\A n \in CallbackNames :
            callbacks'[n] # callbacks[n]
              => \A m \in CallbackNames \ {n} : callbacks'[m] = callbacks[m]]_vars
    /\ [](\A i \in 1..Len(trace) :
            trace[i].op \in {"OnKey", "OnEventCallback", "OnBegin"}
              => trace[i].h = callbacks[trace[i].op])

\* C16 witness: only OnEventCallback was replaced, and a key event was
\* dispatched to the default OnKey and to the user's OnEventCallback.
C16_Witness ==
    /\ callbacks = [DefaultCallbacks EXCEPT !.OnEventCallback = "user"]
    /\ \E i \in 1..Len(trace) : trace[i].op = "OnKey" /\ trace[i].h = "noop"
    /\ \E i \in 1..Len(trace) :
         trace[i].op = "OnEventCallback" /\ trace[i].h = "user"

----------------------------------------------------------------------------
\* Delta time.

\* C17: deltaTime and lastFrameTime change only in the step of the engine
\* thread that begins an iteration (from "frame" to "PollEvents"), never in
\* a step of the caller; that step stores the new sample minus the previous
\* one in deltaTime and makes the new sample the previous one; and every
\* poll, with its dispatch, is preceded by that step of its own iteration
\* and leaves deltaTime as that step stored it.
C17_DeltaTimeByEngineThread ==
    /\ [][deltaTime' # deltaTime \/ lastFrameTime' # lastFrameTime
            => bgpc = "frame" /\ bgpc' = "PollEvents"
               /\ UNCHANGED <<callerVars, isRunning, theThread>>]_vars
    /\ [][bgpc = "frame" /\ bgpc' = "PollEvents"
            => /\ frame' = frame + 1
               /\ deltaTime' = currentFrameTime' - lastFrameTime
               /\ lastFrameTime' = currentFrameTime'
               /\ trace' = trace]_vars
    /\ [](frame = Count("PollEvents") + (IF bgpc = "PollEvents" THEN 1 ELSE 0))
    /\ [][trace' # trace => deltaTime' = deltaTime]_vars

\* C17 witness: in the second iteration the delta is recomputed and an event
\* is queued for the poll that follows.
C17_Witness ==
    /\ bgpc = "PollEvents" /\ frame = 2
    /\ deltaTime = 0 /\ lastFrameTime = now
    /\ xqueue # <<>>

\* C18: the clock never goes back, and in every iteration after the first
\* the step that begins the iteration stores in deltaTime the new sample
\* minus the sample of the iteration before; from the second iteration on
\* deltaTime is not negative.
C18_DeltaNonNegative ==
    /\ [][now' >= now]_vars
    /\ [][frame >= 1 /\ frame' = frame + 1
            => /\ currentFrameTime' = now'
               /\ deltaTime' = currentFrameTime' - currentFrameTime]_vars
    /\ [](frame >= 2 => deltaTime >= 0)

\* C18 witness: the clock ticked between the first and the second sample
\* and not between the second and the third.
C18_Witness ==
    /\ frame = 3 /\ now = MaxTime
    /\ deltaTime = 0 /\ currentFrameTime = MaxTime

====
